---- MODULE Spec2Model ----
(***************************************************************************)
(* Model of plugins/modules/dw_database_catalog.py: the reconciliation     *)
(* routine DwDbc.process() that creates or deletes a CDP Data Warehouse    *)
(* Database Catalog, together with the remote service it talks to through  *)
(* cdpy (list_dbcs, describe_dbc, create_dbc, delete_dbc, wait_for_state,  *)
(* sleep).  One run of the module is one construction of DwDbc; runs       *)
(* follow each other with the same parameters against the same remote.     *)
(***************************************************************************)
EXTENDS Integers, Sequences, FiniteSets, TLC

\* ------------------------------------------------------------- bounds
MaxRuns    == 2   \* consecutive runs of the module with the same parameters
MaxTimeout == 2   \* the 'timeout' parameter, in time units
MaxDelay   == 1   \* largest 'delay' parameter, in time units

\* ------------------------------------------------------- value domains
None     == "None"                       \* Python's None
IdOrder  == <<"d1", "d2", "d3">>         \* the order list_dbcs reports ids in
DbcIds   == {IdOrder[k] : k \in 1..Len(IdOrder)}
Names    == {"a", "b"}
Statuses == {"Creating", "Running", "Stopped", "Deleting"}
ClusterId == "c1"

\* cdpy.sdk.STARTED_STATES and cdpy.sdk.REMOVABLE_STATES: opaque finite sets
\* of status strings supplied by the SDK.
STARTED_STATES   == {"Running"}
REMOVABLE_STATES == {"Running", "Stopped"}

\* A full record as describe_dbc returns it; NoneRec stands for None.
NoneRec == [id |-> None, name |-> None, status |-> None]
\* A slot of the remote cluster holding no catalog.
Absent  == [name |-> None, status |-> None]

VARIABLES
  remote,             \* the cluster: id -> [name, status] or Absent
  params,             \* module parameters and check_mode, fixed over the runs
  run,                \* number of the current run
  pc,                 \* position of process() in the current run
  dbcs,               \* the list returned by list_dbcs
  idx,                \* position of the lookup loop in dbcs
  target,             \* self.target
  changed,            \* self.changed
  database_catalogs,  \* self.database_catalogs
  dbc_id,             \* the id returned by create_dbc
  elapsed,            \* time spent so far inside wait_for_state
  warnings,           \* module.warn calls of the run, in order
  calls,              \* cdpy calls of the run, in order
  error,              \* how the run failed, "none" if it has not
  lookup,             \* self.target as the lookup phase left it
  first,              \* the remote as it was when the first run started
  start               \* the remote as it was when the current run started

vars == <<remote, params, run, pc, dbcs, idx, target, changed,
          database_catalogs, dbc_id, elapsed, warnings, calls, error,
          lookup, first, start>>

\* ------------------------------------------------------- the remote
Describe(id) ==
  IF remote[id] = Absent THEN NoneRec
  ELSE [id |-> id, name |-> remote[id].name, status |-> remote[id].status]

RECURSIVE ListFrom(_)
ListFrom(k) ==
  IF k > Len(IdOrder) THEN <<>>
  ELSE IF remote[IdOrder[k]] = Absent THEN ListFrom(k + 1)
       ELSE <<Describe(IdOrder[k])>> \o ListFrom(k + 1)

ListDbcs == ListFrom(1)

FreeIds == {d \in DbcIds : remote[d] = Absent}

RECURSIVE FirstFree(_)
FirstFree(k) ==
  IF k > Len(IdOrder) THEN None
  ELSE IF IdOrder[k] \in FreeIds THEN IdOrder[k] ELSE FirstFree(k + 1)

Call(op, arg, site) == [op |-> op, arg |-> arg, site |-> site]

\* Variant: the error is caught and the statement is tried again.
FailRetried(kind) ==
  /\ pc' = pc
  /\ error' = error

Fail(kind) ==
  /\ pc' = "failed"
  /\ error' = kind

InProgress == pc \notin {"done", "failed"}

\* ------------------------------------------------------- __init__
\* The parameters as _get_param hands them to DwDbc.  main() declares
\* state with choices present/absent; "restarted" stands for any other value
\* a caller constructs DwDbc with, the case the else branches of process()
\* answer with fail_json.  Time is counted in units of the smallest delay.
TypeParams ==
  [id : {None, "d1"}, name : Names \cup {None},
   load_demo_data : {"True"},
   state : {"present", "absent", "restarted"},
   wait : BOOLEAN, delay : 1..MaxDelay, timeout : {MaxTimeout},
   check_mode : BOOLEAN]

Init ==
  /\ remote \in [DbcIds -> [name : Names, status : Statuses] \cup {Absent}]
  /\ remote["d3"] = Absent
  /\ params \in TypeParams
  /\ run = 1
  /\ pc = "start"
  /\ dbcs = <<>>
  /\ idx = 1
  /\ target = NoneRec
  /\ changed = FALSE
  /\ database_catalogs = <<>>
  /\ dbc_id = None
  /\ elapsed = 0
  /\ warnings = <<>>
  /\ calls = <<>>
  /\ error = "none"
  /\ lookup = NoneRec
  /\ first = remote
  /\ start = remote

\* ------------------------------------------------------- process()
\* Frames: what a step leaves alone.
LocalsSame  == UNCHANGED <<params, run, first, start>>
LookupSame  == UNCHANGED <<dbcs, idx, lookup>>
ResultSame  == UNCHANGED <<changed, database_catalogs, dbc_id, elapsed, warnings>>

\* The conditions process() branches on.
\* Variant: the list is fetched and scanned whether or not an id is given.
NeedsLookupAlways == TRUE
NeedsLookup      == params.id = None
\* Variant: the scan keeps the first match and skips the later ones.
NameMatchesFirst(dbc) ==
  params.name # None /\ dbc.name = params.name /\ target = NoneRec
NameMatches(dbc) == params.name # None /\ dbc.name = params.name
IdMatches(dbc)   == params.id # None /\ dbc.id = params.id
Found            == target # NoneRec
\* Variant: every status counts as removable.
RemovableAlways(t) == TRUE
Removable(t)     == t.status \in REMOVABLE_STATES
Started(t)       == t.status \in STARTED_STATES
ValidState       == params.state \in {"present", "absent"}
\* Variant: check mode is never honoured.
CheckModeOff     == FALSE
CheckMode        == params.check_mode

\* if self.id is None: dbcs = list_dbcs(cluster_id)
Start ==
  /\ pc = "start"
  /\ IF NeedsLookup
     THEN \E ok \in BOOLEAN :
            /\ calls' = Append(calls, Call("list_dbcs", ClusterId, "lookup"))
            /\ IF ok
               THEN /\ dbcs' = ListDbcs
                    /\ pc' = "scan"
                    /\ error' = error
               ELSE /\ dbcs' = dbcs
                    /\ Fail("RemoteCall")
     ELSE /\ pc' = "decide"
          /\ UNCHANGED <<calls, dbcs, error>>
  /\ lookup' = target
  /\ UNCHANGED <<remote, idx, target>>
  /\ ResultSame /\ LocalsSame

\* for dbc in dbcs: one iteration of the lookup loop (or its end)
Scan ==
  /\ pc = "scan"
  /\ IF idx > Len(dbcs)
     THEN /\ pc' = "decide"
          /\ UNCHANGED <<idx, target, calls, error>>
     ELSE LET dbc == dbcs[idx] IN
          IF NameMatches(dbc) \/ IdMatches(dbc)
          THEN \E ok \in BOOLEAN :
                 LET arg  == IF NameMatches(dbc) THEN dbc.id ELSE params.id
                     site == IF NameMatches(dbc) THEN "lookup_name" ELSE "lookup_id"
                 IN /\ calls' = Append(calls, Call("describe_dbc", arg, site))
                    /\ IF ok
                       THEN /\ target' = Describe(arg)
                            /\ idx' = idx + 1
                            /\ UNCHANGED <<pc, error>>
                       ELSE /\ Fail("RemoteCall")
                            /\ UNCHANGED <<target, idx>>
          ELSE /\ idx' = idx + 1
               /\ UNCHANGED <<pc, target, calls, error>>
  /\ lookup' = target'
  /\ UNCHANGED <<remote, dbcs>>
  /\ ResultSame /\ LocalsSame

\* Where the absent branch goes once the delete decision is taken.
\* Variant: waiting re-enters the decision instead of polling.
AfterDropRetry == IF params.wait THEN "decide" ELSE "sleep"
\* Variant: without wait the describe follows at once, with no sleep.
AfterDropNoSleep == IF params.wait THEN "wait_absent" ELSE "redescribe"
\* Variant: wait is ignored, the run sleeps and describes once.
AfterDropIgnoresWait == "sleep"
AfterDrop      == IF params.wait THEN "wait_absent" ELSE "sleep"

\* Variant: check mode records the target and falls through to the wait.
AbsentCheckModeFallThrough ==
  /\ pc = "decide" /\ Found /\ params.state = "absent" /\ CheckMode
  /\ database_catalogs' = Append(database_catalogs, target)
  /\ pc' = AfterDrop
  /\ UNCHANGED <<remote, target, changed, dbc_id, elapsed, warnings, calls, error>>
  /\ LookupSame /\ LocalsSame

\* target found, state == 'absent', check_mode: append the target
AbsentCheckMode ==
  /\ pc = "decide" /\ Found /\ params.state = "absent" /\ CheckMode
  /\ database_catalogs' = Append(database_catalogs, target)
  /\ pc' = "done"
  /\ UNCHANGED <<remote, target, changed, dbc_id, elapsed, warnings, calls, error>>
  /\ LookupSame /\ LocalsSame

\* Variant: with nothing to delete the run returns right after the warning.
AbsentNotRemovableReturns ==
  /\ pc = "decide" /\ Found /\ params.state = "absent" /\ ~CheckMode
  /\ ~Removable(target)
  /\ warnings' = Append(warnings, "not_removable")
  /\ pc' = "done"
  /\ UNCHANGED <<remote, target, changed, database_catalogs, dbc_id, elapsed,
                 calls, error>>
  /\ LookupSame /\ LocalsSame

\* Variant: changed is set whether or not delete_dbc was called.
AbsentNotRemovableChanged ==
  /\ pc = "decide" /\ Found /\ params.state = "absent" /\ ~CheckMode
  /\ ~Removable(target)
  /\ warnings' = Append(warnings, "not_removable")
  /\ changed' = TRUE
  /\ pc' = AfterDrop
  /\ UNCHANGED <<remote, target, database_catalogs, dbc_id, elapsed,
                 calls, error>>
  /\ LookupSame /\ LocalsSame

\* target found, state == 'absent', status not removable: warn, no delete
AbsentNotRemovable ==
  /\ pc = "decide" /\ Found /\ params.state = "absent" /\ ~CheckMode
  /\ ~Removable(target)
  /\ warnings' = Append(warnings, "not_removable")
  /\ pc' = AfterDrop
  /\ UNCHANGED <<remote, target, changed, database_catalogs, dbc_id, elapsed,
                 calls, error>>
  /\ LookupSame /\ LocalsSame

\* The remote after it accepted delete_dbc(id).
Deleted(id) ==
  IF id \notin DbcIds \/ remote[id] = Absent THEN remote
  ELSE [remote EXCEPT ![id].status = "Deleting"]

\* The id delete_dbc is called with: self.target['id']
\* Variant: delete_dbc is called with self.id.
DeleteIdParam == params.id
DeleteId      == target.id

\* target found, state == 'absent', status removable: delete_dbc, changed
AbsentDelete ==
  /\ pc = "decide" /\ Found /\ params.state = "absent" /\ ~CheckMode
  /\ Removable(target)
  /\ calls' = Append(calls, Call("delete_dbc", DeleteId, "absent"))
  /\ \E ok \in BOOLEAN :
       IF ok
       THEN /\ remote' = Deleted(DeleteId)
            /\ changed' = TRUE
            /\ pc' = AfterDrop
            /\ error' = error
       ELSE /\ Fail("RemoteCall")
            /\ UNCHANGED <<remote, changed>>
  /\ UNCHANGED <<target, database_catalogs, dbc_id, elapsed, warnings>>
  /\ LookupSame /\ LocalsSame

\* The interval wait_for_state sleeps between two polls: delay=self.delay
\* Variant: with wait on the polls are not paced, no time passes between
\* them.
PollDelayUnpaced == IF params.wait THEN 0 ELSE params.delay
PollDelay     == params.delay

\* wait_for_state(describe_dbc, dbc_id=target['id'], field=None): one poll
WaitAbsent ==
  /\ pc = "wait_absent"
  /\ IF elapsed >= params.timeout
     THEN /\ Fail("PollTimeout")
          /\ UNCHANGED <<calls, elapsed>>
     ELSE \E ok \in BOOLEAN :
            /\ calls' = Append(calls, Call("describe_dbc", target.id, "wait_absent"))
            /\ IF ~ok
               THEN Fail("RemoteCall") /\ elapsed' = elapsed
               ELSE IF Describe(target.id) = NoneRec
                    THEN pc' = "done" /\ UNCHANGED <<elapsed, error>>
                    ELSE /\ elapsed' = elapsed + PollDelay
                         /\ UNCHANGED <<pc, error>>
  /\ UNCHANGED <<remote, target, changed, database_catalogs, dbc_id, warnings>>
  /\ LookupSame /\ LocalsSame

\* self.cdpy.sdk.sleep(self.delay)
AbsentSleep ==
  /\ pc = "sleep"
  /\ calls' = Append(calls, Call("sleep", params.delay, "absent"))
  /\ pc' = "redescribe"
  /\ UNCHANGED <<remote, target, error>>
  /\ ResultSame /\ LookupSame /\ LocalsSame

\* self.target = describe_dbc(dbc_id=target['id']); append
AbsentDescribe ==
  /\ pc = "redescribe"
  /\ calls' = Append(calls, Call("describe_dbc", target.id, "absent"))
  /\ \E ok \in BOOLEAN :
       IF ok
       THEN /\ target' = Describe(target.id)
            /\ database_catalogs' = Append(database_catalogs, target')
            /\ pc' = "done"
            /\ error' = error
       ELSE /\ Fail("RemoteCall")
            /\ UNCHANGED <<target, database_catalogs>>
  /\ UNCHANGED <<remote, changed, dbc_id, elapsed, warnings>>
  /\ LookupSame /\ LocalsSame

\* Variant: the found target is recorded without wait as well.
PresentFoundRecords ==
  /\ pc = "decide" /\ Found /\ params.state = "present"
  /\ warnings' = Append(warnings, "already_present")
  /\ pc' = IF params.wait THEN "wait_target" ELSE "done"
  /\ database_catalogs' = IF params.wait THEN database_catalogs
                          ELSE Append(database_catalogs, target)
  /\ UNCHANGED <<remote, target, changed, dbc_id, elapsed, calls, error>>
  /\ LookupSame /\ LocalsSame

\* target found, state == 'present': warn; poll only if wait
PresentFound ==
  /\ pc = "decide" /\ Found /\ params.state = "present"
  /\ warnings' = Append(warnings, "already_present")
  /\ pc' = IF params.wait THEN "wait_target" ELSE "done"
  /\ UNCHANGED <<remote, target, changed, database_catalogs, dbc_id, elapsed,
                 calls, error>>
  /\ LookupSame /\ LocalsSame

\* The id wait_for_state polls: target['id'] (found) or dbc_id (created).
WaitId == IF pc = "wait_created" THEN dbc_id ELSE target.id

\* self.target = wait_for_state(describe_dbc, state=STARTED_STATES); append
WaitStarted ==
  /\ pc \in {"wait_target", "wait_created"}
  /\ IF elapsed >= params.timeout
     THEN /\ Fail("PollTimeout")
          /\ UNCHANGED <<calls, elapsed, target, database_catalogs>>
     ELSE \E ok \in BOOLEAN :
            /\ calls' = Append(calls, Call("describe_dbc", WaitId, pc))
            /\ IF ~ok
               THEN /\ Fail("RemoteCall")
                    /\ UNCHANGED <<elapsed, target, database_catalogs>>
               ELSE IF Started(Describe(WaitId))
                    THEN /\ target' = Describe(WaitId)
                         /\ database_catalogs' = Append(database_catalogs, target')
                         /\ pc' = "done"
                         /\ UNCHANGED <<elapsed, error>>
                    ELSE /\ elapsed' = elapsed + PollDelay
                         /\ UNCHANGED <<pc, error, target, database_catalogs>>
  /\ UNCHANGED <<remote, changed, dbc_id, warnings>>
  /\ LookupSame /\ LocalsSame

\* Variant: an unknown state is passed over in silence.
InvalidStateIgnored ==
  /\ pc = "decide" /\ ~ValidState
  /\ pc' = "done"
  /\ UNCHANGED <<remote, target, calls, error>>
  /\ ResultSame /\ LookupSame /\ LocalsSame

\* module.fail_json("State %s is not valid for this module"), either branch
InvalidState ==
  /\ pc = "decide" /\ ~ValidState
  /\ Fail("InvalidState")
  /\ UNCHANGED <<remote, target, calls>>
  /\ ResultSame /\ LookupSame /\ LocalsSame

\* Variant: the not-found branch emits no warning.
AbsentNotFoundSilent ==
  /\ pc = "decide" /\ ~Found /\ params.state = "absent"
  /\ pc' = "done"
  /\ UNCHANGED <<remote, target, calls, error>>
  /\ ResultSame /\ LookupSame /\ LocalsSame

\* no target, state == 'absent': warn
AbsentNotFound ==
  /\ pc = "decide" /\ ~Found /\ params.state = "absent"
  /\ warnings' = Append(warnings, "already_absent")
  /\ pc' = "done"
  /\ UNCHANGED <<remote, target, changed, database_catalogs, dbc_id, elapsed,
                 calls, error>>
  /\ LookupSame /\ LocalsSame

\* no target, state == 'present', check_mode: pass
PresentCheckMode ==
  /\ pc = "decide" /\ ~Found /\ params.state = "present" /\ CheckMode
  /\ pc' = "done"
  /\ UNCHANGED <<remote, target, calls, error>>
  /\ ResultSame /\ LookupSame /\ LocalsSame

\* The remote after it accepted create_dbc(name) under the id it handed out.
Created(id, name) ==
  [remote EXCEPT ![id] = [name |-> name, status |-> "Creating"]]

\* Where the create branch goes once create_dbc returned.
\* Variant: wait is ignored after the create.
AfterCreateNoWait == "describe_created"
AfterCreate == IF params.wait THEN "wait_created" ELSE "describe_created"

\* no target, state == 'present': dbc_id = create_dbc(...); changed
PresentCreate ==
  /\ pc = "decide" /\ ~Found /\ params.state = "present" /\ ~CheckMode
  /\ calls' = Append(calls, Call("create_dbc",
                 <<ClusterId, params.name, params.load_demo_data>>, "create"))
  /\ \E ok \in BOOLEAN :
       IF ok /\ FreeIds # {}
       THEN /\ remote' = Created(FirstFree(1), params.name)
            /\ dbc_id' = FirstFree(1)
            /\ changed' = TRUE
            /\ pc' = AfterCreate
            /\ error' = error
       ELSE /\ Fail("RemoteCall")
            /\ UNCHANGED <<remote, dbc_id, changed>>
  /\ UNCHANGED <<target, database_catalogs, elapsed, warnings>>
  /\ LookupSame /\ LocalsSame

\* self.target = describe_dbc(dbc_id=dbc_id); append
PresentDescribe ==
  /\ pc = "describe_created"
  /\ calls' = Append(calls, Call("describe_dbc", dbc_id, "describe_created"))
  /\ \E ok \in BOOLEAN :
       IF ok
       THEN /\ target' = Describe(dbc_id)
            /\ database_catalogs' = Append(database_catalogs, target')
            /\ pc' = "done"
            /\ error' = error
       ELSE /\ Fail("RemoteCall")
            /\ UNCHANGED <<target, database_catalogs>>
  /\ UNCHANGED <<remote, changed, dbc_id, elapsed, warnings>>
  /\ LookupSame /\ LocalsSame

\* ------------------------------------------------------- environment
\* The service finishes what it has started: a catalog being created comes
\* up, a catalog being deleted disappears.
Progress(rec) ==
  IF rec.status = "Creating" THEN [rec EXCEPT !.status = "Running"] ELSE Absent

RemoteProgress ==
  /\ InProgress
  /\ \E d \in DbcIds :
       /\ remote[d] # Absent
       /\ remote[d].status \in {"Creating", "Deleting"}
       /\ remote' = [remote EXCEPT ![d] = Progress(remote[d])]
  /\ UNCHANGED <<pc, target, calls, error>>
  /\ ResultSame /\ LookupSame /\ LocalsSame

\* The module is run again with the same parameters: DwDbc.__init__
NextRun ==
  /\ ~InProgress
  /\ run < MaxRuns
  /\ run' = run + 1
  /\ pc' = "start"
  /\ dbcs' = <<>>
  /\ idx' = 1
  /\ target' = NoneRec
  /\ changed' = FALSE
  /\ database_catalogs' = <<>>
  /\ dbc_id' = None
  /\ elapsed' = 0
  /\ warnings' = <<>>
  /\ calls' = <<>>
  /\ error' = "none"
  /\ lookup' = NoneRec
  /\ start' = remote
  /\ UNCHANGED <<remote, params, first>>

Next ==
  \/ Start
  \/ Scan
  \/ AbsentCheckMode
  \/ AbsentNotRemovable
  \/ AbsentDelete
  \/ WaitAbsent
  \/ AbsentSleep
  \/ AbsentDescribe
  \/ PresentFound
  \/ WaitStarted
  \/ InvalidState
  \/ AbsentNotFound
  \/ PresentCheckMode
  \/ PresentCreate
  \/ PresentDescribe
  \/ RemoteProgress
  \/ NextRun

Spec == Init /\ [][Next]_vars

\* What the interpreter executes: the next statement of process().
ProcessStep ==
  \/ Start
  \/ Scan
  \/ AbsentCheckMode
  \/ AbsentNotRemovable
  \/ AbsentDelete
  \/ WaitAbsent
  \/ AbsentSleep
  \/ AbsentDescribe
  \/ PresentFound
  \/ WaitStarted
  \/ InvalidState
  \/ AbsentNotFound
  \/ PresentCheckMode
  \/ PresentCreate
  \/ PresentDescribe

\* One run of the module from any state of the cluster, while the service
\* goes on with its own work.
RunNext == ProcessStep \/ RemoteProgress

\* process() is synchronous and single-threaded: a run in progress always
\* gets to execute its next statement, and every cdpy call returns or raises.
FairSpec == Init /\ [][RunNext]_vars /\ WF_vars(ProcessStep)

\* ------------------------------------------------------- observations
Ended    == pc \in {"done", "failed"}
Returned == pc = "done"

CallsOf(op)   == SelectSeq(calls, LAMBDA c : c.op = op)
Count(op)     == Len(CallsOf(op))
CallsAt(site) == SelectSeq(calls, LAMBDA c : c.site = site)
Position(op)  == CHOOSE k \in 1..Len(calls) : calls[k].op = op
LastCall      == calls[Len(calls)]

\* The run failed because the remote call `op` raised.
Raised(op) ==
  /\ pc = "failed" /\ error = "RemoteCall"
  /\ Len(calls) > 0 /\ LastCall.op = op

\* The run failed inside the lookup phase (list_dbcs or a lookup describe).
LookupFailed ==
  /\ pc = "failed" /\ error = "RemoteCall"
  /\ Len(calls) > 0 /\ LastCall.site \in {"lookup", "lookup_name", "lookup_id"}

\* The lookup phase is over and process() has taken its branch.
Decided == pc \notin {"start", "scan", "decide"} /\ ~LookupFailed

LookupFound == lookup # NoneRec

\* ------------------------------------------------------- claims

\* C1: in every state of every run, failed runs included, the create_dbc and
\* delete_dbc calls issued so far number at most one.
C1_AtMostOneMutatingCall ==
  Count("create_dbc") + Count("delete_dbc") <= 1

\* A run that issued its one mutating call and then ended in an error.
C1_Witness ==
  /\ pc = "failed" /\ error = "PollTimeout"
  /\ Count("create_dbc") + Count("delete_dbc") = 1

\* A catalog with the id of the parameters existed, removable, when the run
\* started.
IdExistsRemovable ==
  /\ params.id # None
  /\ start[params.id] # Absent
  /\ start[params.id].status \in REMOVABLE_STATES

\* C2: a run with state=absent, check mode off and an id, whose catalog
\* exists with a removable status, issues exactly one delete_dbc for that id
\* and returns changed=true.
C2_DeleteById ==
  (Returned /\ params.state = "absent" /\ ~params.check_mode /\ IdExistsRemovable)
    => /\ Count("delete_dbc") = 1
       /\ CallsOf("delete_dbc")[1].arg = params.id
       /\ changed

\* The catalog the parameters designate (by id if given, else by name)
\* exists in `rem` with a started status.
DesignatedStarted(rem) ==
  IF params.id # None
  THEN rem[params.id] # Absent /\ rem[params.id].status \in STARTED_STATES
  ELSE /\ params.name # None
       /\ \E d \in DbcIds : /\ rem[d].name = params.name
                            /\ rem[d].status \in STARTED_STATES

\* C3: with state=present and the designated catalog already started when
\* the first run began, no run issues a delete_dbc and the second run issues
\* no create_dbc.
C3_PresentIdempotent ==
  (params.state = "present" /\ DesignatedStarted(first))
    => /\ Count("delete_dbc") = 0
       /\ run = 2 => Count("create_dbc") = 0

C4_Case ==
  /\ params.state = "absent" /\ ~params.check_mode
  /\ LookupFound /\ lookup.status \in REMOVABLE_STATES /\ Decided

\* C4: state=absent, check mode off, the lookup found a removable target:
\* once the branch is taken exactly one delete_dbc has been issued, for the
\* found id, and changed is true from the return of that call on, with or
\* without wait (the call raising is the one way changed stays false: the
\* run then ends with that error).
C4_DeleteFoundOnce ==
  C4_Case => /\ Count("delete_dbc") = 1
             /\ CallsOf("delete_dbc")[1].arg = lookup.id
             /\ Count("create_dbc") = 0
             /\ changed = ~Raised("delete_dbc")

C4_Witness == C4_Case /\ Returned /\ changed /\ params.wait

C4_WitnessNoWait == C4_Case /\ Returned /\ changed /\ ~params.wait

C5_Case ==
  /\ params.state = "absent"
  /\ LookupFound /\ lookup.status \notin REMOVABLE_STATES /\ Decided

\* C5 as stated: state=absent, the lookup found a target that is not
\* removable, any check mode and wait: no delete_dbc, the warning, changed
\* false.
C5_Original ==
  C5_Case => /\ Count("delete_dbc") = 0
             /\ "not_removable" \in {warnings[k] : k \in 1..Len(warnings)}
             /\ ~changed

\* C5 amended: in that case no delete_dbc is issued and changed stays false
\* whatever check mode and wait are; the warning is emitted, once, exactly
\* when check mode is off, and no warning at all when it is on.
C5_NotRemovableSkipsDelete ==
  C5_Case => /\ Count("delete_dbc") = 0
             /\ Count("create_dbc") = 0
             /\ ~changed
             /\ warnings = IF params.check_mode THEN <<>> ELSE <<"not_removable">>

C5_Witness == C5_Case /\ Returned /\ ~params.check_mode /\ params.wait

C6_Case ==
  /\ params.state = "present" /\ ~params.check_mode /\ params.wait
  /\ ~LookupFound /\ Decided

\* C6: state=present, nothing found, check mode off, wait on.  Exactly one
\* create_dbc(cluster_id, name, load_demo_data) is issued; every poll comes
\* after it and describes the id it returned; the polling ends only with a
\* started status (the run returns that one record) or at the timeout;
\* changed is true from the return of create_dbc on.
C6_CreateThenPoll ==
  C6_Case =>
    /\ Count("create_dbc") = 1 /\ Count("delete_dbc") = 0
    /\ CallsOf("create_dbc")[1].arg = <<ClusterId, params.name, params.load_demo_data>>
    /\ changed = ~Raised("create_dbc")
    /\ \A k \in 1..Len(calls) :
         calls[k].site = "wait_created"
           => /\ k > Position("create_dbc")
              /\ calls[k].op = "describe_dbc" /\ calls[k].arg = dbc_id
    /\ Len(CallsAt("describe_created")) = 0
    /\ Returned => /\ Len(database_catalogs) = 1
                   /\ database_catalogs[1].id = dbc_id
                   /\ database_catalogs[1].status \in STARTED_STATES
    /\ ~Returned => database_catalogs = <<>>
    /\ pc = "wait_created" => elapsed = Len(CallsAt("wait_created")) * params.delay
    /\ (pc = "failed" /\ ~Raised("create_dbc") /\ ~Raised("describe_dbc"))
         => error = "PollTimeout" /\ elapsed >= params.timeout

\* The status was polled more than once before it was found started.
C6_Witness == C6_Case /\ Returned /\ Len(CallsAt("wait_created")) >= 2

C6_WitnessTimeout == C6_Case /\ error = "PollTimeout"

C7_Case ==
  /\ params.state = "present" /\ params.check_mode
  /\ ~LookupFound /\ Decided

\* C7: state=present, nothing found, check mode on: no create_dbc nor any
\* other call after the lookup, changed false, an empty result, for every
\* wait.
C7_DryRunCreatesNothing ==
  C7_Case => /\ Count("create_dbc") = 0 /\ Count("delete_dbc") = 0
             /\ \A k \in 1..Len(calls) :
                  calls[k].site \in {"lookup", "lookup_name", "lookup_id"}
             /\ ~changed
             /\ database_catalogs = <<>>
             /\ Returned

C7_Witness == C7_Case /\ params.wait /\ Returned

C7_WitnessNoWait == C7_Case /\ ~params.wait

C8_Case ==
  /\ params.state = "absent"
  /\ ~LookupFound /\ Decided

\* C8: state=absent, nothing found: no delete_dbc, sleep, poll or describe
\* after the lookup, changed false, an empty result and exactly one
\* 'already absent' warning, for every check mode and wait.
C8_AlreadyAbsent ==
  C8_Case => /\ \A k \in 1..Len(calls) :
                  calls[k].site \in {"lookup", "lookup_name", "lookup_id"}
             /\ ~changed
             /\ database_catalogs = <<>>
             /\ warnings = <<"already_absent">>
             /\ Returned

C8_Witness == C8_Case /\ params.id = None /\ Len(calls) >= 2

\* C9: a run whose state is neither 'present' nor 'absent' never returns a
\* result, issues no create_dbc or delete_dbc and leaves changed false; once
\* its lookup is over, target found or not, it has failed with the
\* invalid-state error (before that only the lookup's own remote call can
\* end it).  A run whose state is 'present' or 'absent' never fails with the
\* invalid-state error.
C9_InvalidStateFails ==
  /\ ~ValidState =>
       /\ Count("create_dbc") = 0 /\ Count("delete_dbc") = 0
       /\ ~changed
       /\ database_catalogs = <<>>
       /\ ~Returned
       /\ Decided => pc = "failed" /\ error = "InvalidState"
       /\ pc = "failed" => error = "InvalidState" \/ LookupFailed
  /\ ValidState => error # "InvalidState"

C9_Witness ==
  ~ValidState /\ error = "InvalidState" /\ LookupFound /\ params.check_mode

C9_WitnessNotFound ==
  ~ValidState /\ error = "InvalidState" /\ ~LookupFound /\ ~params.check_mode

\* An upper bound on the statements a run still has to execute.
WaitRank   == IF elapsed >= params.timeout THEN 1 ELSE params.timeout - elapsed + 1
DecideRank == params.timeout + 3
ScanRank   == DecideRank + 1 + (IF idx > Len(dbcs) THEN 0 ELSE Len(dbcs) - idx + 1)
Rank ==
  CASE pc \in {"done", "failed"} -> 0
    [] pc \in {"wait_absent", "wait_target", "wait_created"} -> WaitRank
    [] pc \in {"redescribe", "describe_created"} -> 1
    [] pc = "sleep" -> 2
    [] pc = "decide" -> DecideRank
    [] pc = "scan" -> ScanRank
    [] pc = "start" -> DecideRank + Len(IdOrder) + 2

\* C11: every run terminates.  A run in progress eventually has returned a
\* result or failed; every statement it executes brings it strictly closer
\* to its end (no run polls forever); a run that failed did so with the
\* invalid-state, poll-timeout or remote-call error, and a run that returned
\* did not fail.
C11_EveryRunTerminates ==
  /\ InProgress ~> Ended
  /\ [][ProcessStep => Rank' < Rank]_vars
  /\ [](pc = "failed" <=> error \in {"InvalidState", "PollTimeout", "RemoteCall"})
  /\ [](pc # "failed" <=> error = "none")

\* A run that polled until the timeout put an end to it.
C11_Witness ==
  /\ pc = "failed" /\ error = "PollTimeout"
  /\ Len(CallsAt("wait_absent")) >= 2

\* The part of the list the lookup loop has gone through, and the entries of
\* it that carry the name of the parameters.
Scanned == IF pc = "scan" THEN SubSeq(dbcs, 1, idx - 1) ELSE dbcs
Matches ==
  SelectSeq(Scanned, LAMBDA d : params.name # None /\ d.name = params.name)
LastMatch == Matches[Len(Matches)]
LookupCalls == SelectSeq(calls, LAMBDA c : c.site # "lookup")

C12_Case ==
  /\ params.id = None
  /\ pc \in {"scan", "decide"}

\* C12: with no id, the lookup goes through the whole list: it has issued
\* one describe_dbc for every listed catalog carrying the name of the
\* parameters, in list order, and nothing else after list_dbcs; the target
\* comes from the describe of the last of them (that catalog, or None if it
\* is gone by then); with no such entry the target is unset.
C12_LastMatchWins ==
  C12_Case =>
    /\ Len(LookupCalls) = Len(Matches)
    /\ \A k \in 1..Len(Matches) :
         /\ LookupCalls[k].op = "describe_dbc"
         /\ LookupCalls[k].site = "lookup_name"
         /\ LookupCalls[k].arg = Matches[k].id
    /\ target = lookup
    /\ Len(Matches) = 0 => lookup = NoneRec
    /\ Len(Matches) > 0 =>
         IF lookup = NoneRec
         THEN remote[LastMatch.id] = Absent
         ELSE lookup.id = LastMatch.id /\ lookup.name = params.name

\* Two listed catalogs carry the name and both are described: the second
\* one is the target.
C12_Witness ==
  /\ C12_Case /\ pc = "decide"
  /\ Len(Matches) = 2 /\ lookup.id = Matches[2].id
  /\ remote[Matches[1].id] # Absent

\* The calls of the run that came after its lookup phase.
LookupSites == {"lookup", "lookup_name", "lookup_id"}
PostCalls   == SelectSeq(calls, LAMBDA c : c.site \notin LookupSites)
IsCall(c, op, arg, site) == c.op = op /\ c.site = site /\ c.arg = arg

C14_Case ==
  /\ params.state = "present"
  /\ LookupFound /\ Decided

\* C14: state=present, target found, any check mode: no create_dbc or
\* delete_dbc, changed false, the 'already present' warning.  Without wait
\* the run returns an empty list and calls nothing after the lookup; with
\* wait it only polls describe_dbc on the found id, and returns, once the
\* status is started, exactly the record of that poll.
C14_PresentFoundNoOp ==
  C14_Case =>
    /\ Count("create_dbc") = 0 /\ Count("delete_dbc") = 0
    /\ ~changed
    /\ warnings = <<"already_present">>
    /\ ~params.wait => Returned /\ database_catalogs = <<>> /\ PostCalls = <<>>
    /\ params.wait =>
         /\ \A k \in 1..Len(PostCalls) :
              IsCall(PostCalls[k], "describe_dbc", lookup.id, "wait_target")
         /\ Returned => /\ database_catalogs = <<target>>
                        /\ target.id = lookup.id
                        /\ target.status \in STARTED_STATES
                        /\ Len(PostCalls) >= 1
         /\ ~Returned => database_catalogs = <<>>
         /\ pc = "failed" => \/ error = "PollTimeout" /\ elapsed >= params.timeout
                             \/ Raised("describe_dbc")

\* In check mode, the found catalog came up while the run polled it.
C14_Witness ==
  /\ C14_Case /\ params.wait /\ params.check_mode /\ Returned
  /\ Len(PostCalls) >= 2

C14_WitnessNoWait == C14_Case /\ ~params.wait /\ Returned

C15_Case ==
  /\ params.state = "absent" /\ ~params.check_mode /\ ~params.wait
  /\ LookupFound /\ Decided

\* The calls the branch makes, in order.
C15_Expected ==
  (IF lookup.status \in REMOVABLE_STATES
   THEN <<Call("delete_dbc", lookup.id, "absent")>> ELSE <<>>)
  \o <<Call("sleep", params.delay, "absent"),
       Call("describe_dbc", lookup.id, "absent")>>

\* C15: state=absent, target found, check mode off, no wait: after the
\* lookup the run calls delete_dbc (if the status is removable), then one
\* sleep of the delay, then one describe_dbc of the target id, in that
\* order and nothing else; it returns exactly one record, the result of
\* that describe, which is None when the catalog is gone by then.
C15_DeleteSleepDescribe ==
  C15_Case =>
    /\ Len(PostCalls) <= Len(C15_Expected)
    /\ \A k \in 1..Len(PostCalls) :
         IsCall(PostCalls[k], C15_Expected[k].op, C15_Expected[k].arg, "absent")
    /\ pc = "sleep" => Len(PostCalls) = Len(C15_Expected) - 2
    /\ pc = "redescribe" => Len(PostCalls) = Len(C15_Expected) - 1
    /\ Returned => /\ Len(PostCalls) = Len(C15_Expected)
                   /\ database_catalogs = <<target>>
                   /\ target = NoneRec \/ target.id = lookup.id
                   /\ target = NoneRec <=> remote[lookup.id] = Absent
    /\ ~Returned => database_catalogs = <<>>
    /\ pc = "failed" => Raised("delete_dbc") \/ Raised("describe_dbc")

\* The catalog was deleted and was gone when the run described it again:
\* the run returns that result.
C15_Witness ==
  /\ C15_Case /\ Returned /\ Count("delete_dbc") = 1
  /\ database_catalogs = <<NoneRec>>

C15_WitnessStale ==
  /\ C15_Case /\ Returned /\ Count("delete_dbc") = 1
  /\ database_catalogs # <<NoneRec>>

C16_Case ==
  /\ params.state = "absent" /\ ~params.check_mode /\ params.wait
  /\ LookupFound /\ lookup.status \notin REMOVABLE_STATES /\ Decided

\* C16: state=absent, target found with a status that is not removable,
\* check mode off, wait on: no delete_dbc is issued, yet the run polls
\* describe_dbc for the target to disappear.  It returns (changed false,
\* nothing recorded) only when a poll found the catalog gone; as long as the
\* catalog is there the run cannot return, and it ends with the poll
\* timeout (or a poll that raised).
C16_WaitsWithoutDelete ==
  C16_Case =>
    /\ Count("delete_dbc") = 0 /\ Count("create_dbc") = 0
    /\ ~changed
    /\ warnings = <<"not_removable">>
    /\ \A k \in 1..Len(PostCalls) :
         IsCall(PostCalls[k], "describe_dbc", lookup.id, "wait_absent")
    /\ database_catalogs = <<>>
    /\ Returned => remote[lookup.id] = Absent /\ Len(PostCalls) >= 1
    /\ (Ended /\ remote[lookup.id] # Absent)
         => /\ pc = "failed"
            /\ \/ error = "PollTimeout" /\ elapsed >= params.timeout
               \/ Raised("describe_dbc")
    /\ error = "PollTimeout" => Len(PostCalls) * params.delay >= params.timeout

\* Nothing removed the catalog: the run ended with the poll timeout.
C16_Witness ==
  /\ C16_Case /\ error = "PollTimeout" /\ remote[lookup.id] # Absent

C16_WitnessGone == C16_Case /\ Returned /\ Len(PostCalls) >= 2

\* C17: a remote call that fails ends the run with its error and nothing is
\* called after it: a run that has an error has failed, and a failed run
\* executes no further statement.  list_dbcs, create_dbc and delete_dbc are
\* each called at most once in a run, and no delete_dbc follows a
\* create_dbc, whether it raised or the poll after it timed out.
C17_FailuresPropagate ==
  /\ error # "none" <=> pc = "failed"
  /\ pc = "failed" => ~ENABLED ProcessStep
  /\ Count("list_dbcs") <= 1
  /\ Count("create_dbc") <= 1
  /\ Count("delete_dbc") <= 1
  /\ Count("create_dbc") = 1 => Count("delete_dbc") = 0
  /\ (pc = "failed" /\ error = "RemoteCall")
       => Len(calls) > 0 /\ LastCall.op # "sleep"
  /\ Raised("list_dbcs") => Len(calls) = 1
  /\ Raised("create_dbc") => ~changed /\ database_catalogs = <<>>
  /\ Raised("delete_dbc") => ~changed /\ database_catalogs = <<>>

\* The poll after a create timed out and the created catalog is left as it
\* is.
C17_Witness ==
  /\ pc = "failed" /\ error = "PollTimeout"
  /\ Count("create_dbc") = 1 /\ dbc_id # None /\ remote[dbc_id] # Absent

C17_WitnessCreateRaised == Raised("create_dbc")

\* C18: changed is true exactly when a create_dbc or delete_dbc call of the
\* run has returned: false before, false when that call raised, true from
\* its return to the end of the run, whatever the lookup, the warnings, the
\* sleep, the describes and the polls do.
C18_ChangedIffMutated ==
  changed <=> /\ Count("create_dbc") + Count("delete_dbc") >= 1
              /\ ~Raised("create_dbc") /\ ~Raised("delete_dbc")

\* The delete returned, the poll for the catalog to disappear timed out:
\* changed is still true.
C18_Witness ==
  /\ changed /\ Count("delete_dbc") = 1
  /\ pc = "failed" /\ error = "PollTimeout"

\* C19: in check mode no create_dbc and no delete_dbc is issued and changed
\* stays false, whatever the parameters and the cluster; with state=absent
\* and a target found the run returns exactly the target of the lookup,
\* with no warning and no call after the lookup.
C19_DryRunNeverMutates ==
  params.check_mode =>
    /\ Count("create_dbc") = 0 /\ Count("delete_dbc") = 0
    /\ ~changed
    /\ (params.state = "absent" /\ LookupFound /\ Decided)
         => /\ Returned
            /\ database_catalogs = <<lookup>>
            /\ warnings = <<>>
            /\ PostCalls = <<>>

\* A removable target in check mode: recorded, not deleted.
C19_Witness ==
  /\ params.check_mode /\ params.state = "absent" /\ params.wait
  /\ LookupFound /\ lookup.status \in REMOVABLE_STATES /\ Returned

C20_Case ==
  /\ params.state = "absent" /\ ~params.check_mode
  /\ LookupFound /\ Decided

\* C20: state=absent, target found, check mode off: with wait the run
\* records nothing, so a run that returns returns an empty list; without
\* wait a run that returns returns one record.
C20_WaitReturnsNothing ==
  C20_Case =>
    /\ params.wait => database_catalogs = <<>>
    /\ (~params.wait /\ Returned) => Len(database_catalogs) = 1

\* The catalog was deleted, the poll saw it gone, the result is empty.
C20_Witness ==
  /\ C20_Case /\ params.wait /\ Returned /\ changed
  /\ database_catalogs = <<>>

\* C10: database_catalogs never holds more than one record.
C10_AtMostOneRecord == Len(database_catalogs) <= 1

C10_Witness == Returned /\ Len(database_catalogs) = 1 /\ changed

====
